---- MODULE Spec2Model ----
(***************************************************************************)
(* Model of utils.py (trigger selection analysis): get_data,               *)
(* get_admin_data, get_trigger_tables, calculate_ev_rarop and              *)
(* generate_rarop_visualizations.                                          *)
(*                                                                         *)
(* A pandas DataFrame is a record [columns, rows]: the sequence of column  *)
(* names and the sequence of rows (records).  Numbers are integers or      *)
(* exact fractions; the HTTP server is the environment and its answers     *)
(* are drawn nondeterministically when a request is issued.                *)
(***************************************************************************)
EXTENDS Integers, Sequences, FiniteSets, TLC

VARIABLES
    pc,            \* position of the running call: "call", "loop", "return", "raise"
    args,          \* the arguments of the call
    response,      \* the last HTTP response received
    requests,      \* the GET requests issued so far, in order, with their status
    result,        \* the value returned (NoResult before the return)
    raised,        \* the exception raised ("none" when there is none)
    admin_data,    \* get_trigger_tables: what get_admin_data returned
    admin_tables,  \* get_trigger_tables: the collection being built
    loop,          \* the loop indices of get_trigger_tables; the index, the table
                   \* passed and updated_data of generate_rarop_visualizations
    dataframe      \* the caller's table (calculate_ev_rarop changes it in place)

vars == <<pc, args, response, requests, result, raised,
          admin_data, admin_tables, loop, dataframe>>

----------------------------------------------------------------------------
(* Bounds of the model *)

\* Largest number of time-series rows in an export response
MaxRows == 2
\* Forecast values and thresholds range over -MaxVal..MaxVal
MaxVal == 1

Values == (0 - MaxVal)..MaxVal
Years == {2019, 2020}
StatusCodes == {200, 404, 500}
Protocols == {0, 1}
IssueMonths == {0, 11}
Frequencies == {15, 30}

\* Python's None, and the value of a variable not assigned yet
None == [none |-> TRUE]
NoResult == [pending |-> TRUE]
\* The NaN a Series.map gives a key it does not know
NaN == "NaN"

----------------------------------------------------------------------------
(* Generic helpers *)

SeqsUpTo(S, n) == UNION {[1..k -> S] : k \in 1..n}

RECURSIVE MutSelectRows(_, _)
MutSelectRows(rows, years) ==
    IF rows = <<>> THEN <<>>
    ELSE IF Head(rows).Year \in years THEN <<Head(rows)>> ELSE MutSelectRows(Tail(rows), years)

RECURSIVE SelectRows(_, _)
\* df[df['Year'].isin(years)]: the rows whose Year is in years, order kept
SelectRows(rows, years) ==
    IF rows = <<>> THEN <<>>
    ELSE IF Head(rows).Year \in years
         THEN <<Head(rows)>> \o SelectRows(Tail(rows), years)
         ELSE SelectRows(Tail(rows), years)

----------------------------------------------------------------------------
(* get_data *)

\* The JSON bodies the export endpoint answers with: a scalar threshold,
\* the skill block and the list-valued history (one entry per year).
Skills == {[accuracy |-> 1, act_in_vain |-> 2, fail_to_act |-> 3,
            worthy_action |-> 5, worthy_inaction |-> 4]}

ExportBodies ==
    [threshold : Values, skill : Skills,
     history : SeqsUpTo([year : Years, pred : Values], MaxRows)]

ExportResponses ==
    [status_code : {200}, json : ExportBodies]
    \cup [status_code : StatusCodes \ {200}, json : {None}]

\* The columns that are not lists, renamed by replace_values, as a dict
melted_non_nested_dict(json) ==
    [Forecast_Threshold |-> json.threshold,
     Forecast_Accuracy  |-> json.skill.accuracy,
     Act_in_Vain        |-> json.skill.act_in_vain,
     Fail_to_Act        |-> json.skill.fail_to_act,
     Worthy_Action      |-> json.skill.worthy_action,
     Worthy_Inaction    |-> json.skill.worthy_inaction]

month_names == <<"Jan", "Feb", "Mar", "Apr", "May", "Jun",
                 "Jul", "Aug", "Sep", "Oct", "Nov", "Dec">>

\* Series.map(month_mapping): a month outside 0..11 maps to NaN
month_mapping(m) == IF m \in 0..11 THEN month_names[m + 1] ELSE NaN

desired_columns ==
    <<"Year", "Frequency (%)", "Issue Month", "Forecast", "Forecast Threshold",
      "Trigger Difference", "Forecast Accuracy (%)", "Triggered",
      "Adjusted Forecast Threshold", "Threshold Protocol", "Triggered Adjusted",
      "Act in Vain", "Fail to Act", "Worthy Action", "Worthy Inaction",
      "Design Tool URL">>

MutTriggeredOf(forecast, threshold) == forecast >= threshold

\* df['Triggered'] = df[predictor] > melted_non_nested_dict['Forecast Threshold']
TriggeredOf(forecast, threshold) == forecast > threshold

MutTriggerDifferenceOf(forecast, threshold) == threshold - forecast

\* df['Trigger Difference'] = df[predictor] - ...['Forecast Threshold']
TriggerDifferenceOf(forecast, threshold) == forecast - threshold

\* df['Adjusted Forecast Threshold'] = ...['Forecast Threshold'] + threshold_protocol
AdjustedThresholdOf(threshold, threshold_protocol) == threshold + threshold_protocol

MutTriggeredAdjustedOf(forecast, threshold, threshold_protocol) ==
    forecast > threshold + threshold_protocol

\* df['Triggered Adjusted'] = df[predictor] > ...['Forecast Threshold']
TriggeredAdjustedOf(forecast, threshold, threshold_protocol) == forecast > threshold

\* combined_df['Forecast Threshold'] = melted_non_nested_df.at['Forecast Threshold', 'Value']
ForecastThresholdColumn(metrics) == metrics.Forecast_Threshold

\* The design tool URL, kept as the parameters formatted into it
tool_url(a) ==
    <<"fbfmaproom2", a.maproom, a.mode, a.issue_month0, a.freq>>

\* One output row of get_data for the history entry h; 'Threshold Protocol'
\* is the string f"{threshold_protocol}"
AnnotatedRow(a, metrics, h) ==
    [Year                        |-> h.year,
     Frequency                   |-> <<a.freq, "%">>,
     Issue_Month                 |-> month_mapping(a.issue_month0),
     Forecast                    |-> h.pred,
     Forecast_Threshold          |-> ForecastThresholdColumn(metrics),
     Trigger_Difference          |-> TriggerDifferenceOf(h.pred, metrics.Forecast_Threshold),
     Forecast_Accuracy           |-> metrics.Forecast_Accuracy,
     Triggered                   |-> TriggeredOf(h.pred, metrics.Forecast_Threshold),
     Adjusted_Forecast_Threshold |-> AdjustedThresholdOf(metrics.Forecast_Threshold,
                                                         a.threshold_protocol),
     Threshold_Protocol          |-> ToString(a.threshold_protocol),
     Triggered_Adjusted          |-> TriggeredAdjustedOf(h.pred, metrics.Forecast_Threshold,
                                                         a.threshold_protocol),
     Act_in_Vain                 |-> metrics.Act_in_Vain,
     Fail_to_Act                 |-> metrics.Fail_to_Act,
     Worthy_Action               |-> metrics.Worthy_Action,
     Worthy_Inaction             |-> metrics.Worthy_Inaction,
     Design_Tool_URL             |-> tool_url(a)]

\* pd.DataFrame(): no rows, no columns
EmptyDataFrame == [columns |-> <<>>, rows |-> <<>>]

\* What get_data returns when the response has any status but 200
NonOkResult(resp) == EmptyDataFrame

\* What get_data returns for the response resp
get_data(a, resp) ==
    IF resp.status_code = 200
    THEN LET metrics == melted_non_nested_dict(resp.json)
             df == [i \in 1..Len(resp.json.history) |->
                        AnnotatedRow(a, metrics, resp.json.history[i])]
         IN  [columns |-> desired_columns, rows |-> SelectRows(df, a.bad_years)]
    ELSE NonOkResult(resp)

\* The GET request get_data issues
ExportRequest(a) ==
    [endpoint |-> "export", maproom |-> a.maproom, mode |-> a.mode,
     region |-> a.region, issue_month0 |-> a.issue_month0, freq |-> a.freq]

MutExportAttempts(resp) == IF resp.status_code = 200 THEN 1 ELSE 2

\* How many GET requests get_data issues for one response (no retry)
ExportAttempts(resp) == 1

\* An entry of the request log: the request and the status it was answered with
Exchange(req, resp) == [request |-> req, status_code |-> resp.status_code]

RECURSIVE Repeat(_, _)
Repeat(x, n) == IF n <= 0 THEN <<>> ELSE <<x>> \o Repeat(x, n - 1)

GetDataArgs ==
    [maproom : {"djibouti"}, mode : {0}, region : {<<1>>},
     bad_years : SUBSET Years, issue_month0 : IssueMonths, freq : Frequencies,
     threshold_protocol : Protocols]

InitGetData ==
    /\ pc = "call"
    /\ args \in GetDataArgs
    /\ response = None
    /\ requests = <<>>
    /\ result = NoResult
    /\ raised = "none"
    /\ admin_data = None
    /\ admin_tables = <<>>
    /\ loop = <<>>
    /\ dataframe = <<>>

\* get_data, answered 200 by the export endpoint
GetDataOk ==
    /\ pc = "call"
    /\ \E resp \in ExportResponses :
        /\ resp.status_code = 200
        /\ response' = resp
        /\ requests' = requests \o Repeat(Exchange(ExportRequest(args), resp), ExportAttempts(resp))
        /\ result' = get_data(args, resp)
    /\ pc' = "return"
    /\ UNCHANGED <<args, raised, admin_data, admin_tables, loop, dataframe>>

\* get_data, answered with any other status
GetDataError ==
    /\ pc = "call"
    /\ \E resp \in ExportResponses :
        /\ resp.status_code # 200
        /\ response' = resp
        /\ requests' = requests \o Repeat(Exchange(ExportRequest(args), resp), ExportAttempts(resp))
        /\ result' = get_data(args, resp)
    /\ pc' = "return"
    /\ UNCHANGED <<args, raised, admin_data, admin_tables, loop, dataframe>>

NextGetData == GetDataOk \/ GetDataError

SpecGetData == InitGetData /\ [][NextGetData]_vars

Returned200 == pc = "return" /\ response.status_code = 200

\* C1: in every row of the table get_data returns on a 200 response,
\* Triggered is true exactly when the row's Forecast is strictly greater
\* than the threshold of the response (equal values give FALSE).
C1_TriggeredIffAbove ==
    Returned200 =>
        \A i \in 1..Len(result.rows) :
            result.rows[i].Triggered
                <=> (result.rows[i].Forecast > response.json.threshold)

\* A returned table with a triggered row and a row exactly at the threshold
C1_Witness ==
    /\ Returned200
    /\ \E i, j \in 1..Len(result.rows) :
        /\ result.rows[i].Forecast = response.json.threshold
        /\ ~result.rows[i].Triggered
        /\ result.rows[j].Forecast > response.json.threshold
        /\ result.rows[j].Triggered

\* C2: in every row of the table get_data returns on a 200 response,
\* Trigger Difference is the row's Forecast minus the row's Forecast
\* Threshold column.
C2_TriggerDifference ==
    Returned200 =>
        \A i \in 1..Len(result.rows) :
            result.rows[i].Trigger_Difference
                = result.rows[i].Forecast - result.rows[i].Forecast_Threshold

\* A returned table with a negative and a positive Trigger Difference
C2_Witness ==
    /\ Returned200
    /\ \E i, j \in 1..Len(result.rows) :
        /\ result.rows[i].Trigger_Difference < 0
        /\ result.rows[j].Trigger_Difference > 0

\* C3: for every status code other than 200, get_data returns the empty
\* table (no rows, no columns), raises nothing, and has issued exactly one
\* GET request.
C3_NonOkGivesEmptyTable ==
    (pc = "return" /\ response.status_code # 200) =>
        /\ result.columns = <<>>
        /\ result.rows = <<>>
        /\ raised = "none"
        /\ Len(requests) = 1

\* get_data has returned the empty table after a 500, one request issued
C3_Witness ==
    /\ pc = "return"
    /\ response.status_code = 500
    /\ result = EmptyDataFrame
    /\ Len(requests) = 1

\* The (year, forecast) pairs of the rows of a table, in order
YearForecast(rows) == [i \in 1..Len(rows) |-> <<rows[i].Year, rows[i].Forecast>>]

\* C12: on a 200 response the table of get_data holds exactly the rows of
\* the response whose year is in bad_years, in the order of the response: no
\* row of another year, no row of a year of bad_years dropped; when no year
\* matches the table has the sixteen columns and zero rows.
C12_RowsOfBadYears ==
    Returned200 =>
        LET h == response.json.history
            kept == SelectSeq(h, LAMBDA e : e.year \in args.bad_years)
        IN  /\ YearForecast(result.rows)
                   = [i \in 1..Len(kept) |-> <<kept[i].year, kept[i].pred>>]
            /\ result.columns = desired_columns
            /\ (\A i \in 1..Len(h) : h[i].year \notin args.bad_years)
                   => result.rows = <<>>

\* A response with a 2019 row then a 2020 row, bad_years = {2020}: the one
\* 2020 row is returned
C12_Witness ==
    /\ Returned200
    /\ args.bad_years = {2020}
    /\ Len(response.json.history) = 2
    /\ response.json.history[1].year = 2019
    /\ response.json.history[2].year = 2020
    /\ Len(result.rows) = 1
    /\ result.rows[1].Year = 2020

\* C14: in every row returned by get_data, for every threshold_protocol,
\* Triggered Adjusted equals Triggered (the forecast compared with the
\* unadjusted threshold) while Adjusted Forecast Threshold is Forecast
\* Threshold + threshold_protocol.
C14_TriggeredAdjustedIgnoresProtocol ==
    Returned200 =>
        \A i \in 1..Len(result.rows) :
            LET row == result.rows[i]
            IN  /\ row.Triggered_Adjusted <=> row.Triggered
                /\ row.Triggered_Adjusted <=> (row.Forecast > response.json.threshold)
                /\ row.Adjusted_Forecast_Threshold
                       = row.Forecast_Threshold + args.threshold_protocol

\* A row whose forecast does not exceed the adjusted threshold and whose
\* Triggered Adjusted is true all the same
C14_Witness ==
    /\ Returned200
    /\ args.threshold_protocol > 0
    /\ \E i \in 1..Len(result.rows) :
        /\ result.rows[i].Forecast <= result.rows[i].Adjusted_Forecast_Threshold
        /\ result.rows[i].Triggered_Adjusted

----------------------------------------------------------------------------
(* get_admin_data *)

\* Largest number of regions the regions endpoint lists for a level
MaxRegions == 2

RegionKeys == 1..MaxRegions
Levels == {0, 1, 2}
\* need_valid_keys as the caller passes it: True, False, or the integer 1
\* (truthy, but not the object True)
NeedValidKeys == {"True", "False", "1"}
Credentials == {[username |-> "", password |-> ""],
                [username |-> "user", password |-> "secret"]}

\* The display label the endpoint gives the region key k
LabelOf(k) == <<"Region", k>>

RECURSIVE KeysToRegions(_, _)
\* The entries {key, label} for the keys of S from k upwards, in key order
KeysToRegions(S, k) ==
    IF k > MaxRegions THEN <<>>
    ELSE IF k \in S
         THEN <<[key |-> k, label |-> LabelOf(k)]>> \o KeysToRegions(S, k + 1)
         ELSE KeysToRegions(S, k + 1)

\* The bodies of the regions endpoint: a non-empty list of distinct regions
RegionsBodies == {[regions |-> KeysToRegions(S, 1)] : S \in (SUBSET RegionKeys) \ {{}}}

RegionsResponses ==
    [status_code : {200}, json : RegionsBodies]
    \cup [status_code : StatusCodes \ {200}, json : {None}]

RECURSIVE SelectKeys(_, _)
\* df[df['key'].isin(valid_keys)]
SelectKeys(rows, valid_keys) ==
    IF rows = <<>> THEN <<>>
    ELSE IF Head(rows).key \in valid_keys
         THEN <<Head(rows)>> \o SelectKeys(Tail(rows), valid_keys)
         ELSE SelectKeys(Tail(rows), valid_keys)

MutKeysFiltered(level, need_valid_keys) == need_valid_keys = "True"

\* if level != 0: if need_valid_keys is True:
KeysFiltered(level, need_valid_keys) == level # 0 /\ need_valid_keys = "True"

MutAdminNonOkResult(resp) == [columns |-> <<"key", "label">>, rows |-> <<>>]

\* What get_admin_data returns when the response has any status but 200
AdminNonOkResult(resp) == None

\* What get_admin_data returns for the response resp
get_admin_data(a, resp) ==
    IF resp.status_code = 200
    THEN [columns |-> <<"key", "label">>,
          rows |-> IF KeysFiltered(a.level, a.need_valid_keys)
                   THEN SelectKeys(resp.json.regions, a.valid_keys)
                   ELSE resp.json.regions]
    ELSE AdminNonOkResult(resp)

\* The GET request get_admin_data issues (with auth when both credentials
\* are non-empty)
RegionsRequest(a) ==
    [endpoint |-> "regions", maproom |-> a.maproom, level |-> a.level,
     auth |-> (a.username # "" /\ a.password # "")]

GetAdminDataArgs ==
    {[maproom |-> "djibouti", level |-> l, username |-> c.username,
      password |-> c.password, need_valid_keys |-> n, valid_keys |-> v] :
        l \in Levels, c \in Credentials, n \in NeedValidKeys, v \in SUBSET RegionKeys}

InitGetAdminData ==
    /\ pc = "call"
    /\ args \in GetAdminDataArgs
    /\ response = None
    /\ requests = <<>>
    /\ result = NoResult
    /\ raised = "none"
    /\ admin_data = None
    /\ admin_tables = <<>>
    /\ loop = <<>>
    /\ dataframe = <<>>

\* get_admin_data, answered 200 by the regions endpoint
GetAdminDataOk ==
    /\ pc = "call"
    /\ \E resp \in RegionsResponses :
        /\ resp.status_code = 200
        /\ response' = resp
        /\ requests' = Append(requests, Exchange(RegionsRequest(args), resp))
        /\ result' = get_admin_data(args, resp)
    /\ pc' = "return"
    /\ UNCHANGED <<args, raised, admin_data, admin_tables, loop, dataframe>>

\* get_admin_data, answered with any other status
GetAdminDataError ==
    /\ pc = "call"
    /\ \E resp \in RegionsResponses :
        /\ resp.status_code # 200
        /\ response' = resp
        /\ requests' = Append(requests, Exchange(RegionsRequest(args), resp))
        /\ result' = get_admin_data(args, resp)
    /\ pc' = "return"
    /\ UNCHANGED <<args, raised, admin_data, admin_tables, loop, dataframe>>

NextGetAdminData == GetAdminDataOk \/ GetAdminDataError

SpecGetAdminData == InitGetAdminData /\ [][NextGetAdminData]_vars

KeysOf(rows) == {rows[i].key : i \in 1..Len(rows)}

\* C4: on a 200 response get_admin_data returns every region of the response
\* when level = 0, whatever need_valid_keys and valid_keys are; the regions
\* whose key is both in the response and in valid_keys when level > 0 and
\* need_valid_keys is True; every region of the response when level > 0 and
\* need_valid_keys is not True.
C4_RegionSelection ==
    Returned200 =>
        LET all == KeysOf(response.json.regions)
            want == IF args.level = 0 THEN all
                    ELSE IF args.need_valid_keys = "True"
                         THEN all \cap args.valid_keys
                         ELSE all
        IN  /\ KeysOf(result.rows) = want
            /\ Len(result.rows) = Cardinality(want)
            /\ \A i \in 1..Len(result.rows) :
                   \E j \in 1..Len(response.json.regions) :
                       result.rows[i] = response.json.regions[j]

\* Level 0 with need_valid_keys True and a whitelist that misses a region of
\* the response: the region is returned all the same
C4_Witness ==
    /\ Returned200
    /\ args.level = 0
    /\ args.need_valid_keys = "True"
    /\ KeysOf(response.json.regions) \ args.valid_keys # {}
    /\ KeysOf(result.rows) = KeysOf(response.json.regions)

\* C13: on a non-200 response of the regions endpoint get_admin_data returns
\* its failure sentinel, None, and raises nothing, whatever level,
\* need_valid_keys and valid_keys are; one request was issued.
C13_AdminNonOkGivesNone ==
    (pc = "return" /\ response.status_code # 200) =>
        /\ result = None
        /\ raised = "none"
        /\ Len(requests) = 1

\* get_admin_data has returned None after a 404, asked for level 1 with
\* need_valid_keys True
C13_Witness ==
    /\ pc = "return"
    /\ response.status_code = 404
    /\ args.level = 1
    /\ args.need_valid_keys = "True"
    /\ result = None

----------------------------------------------------------------------------
(* get_trigger_tables *)

\* Longest list of frequencies and of issue months passed to get_trigger_tables
MaxFreqs == 2
MaxMonths == 2
\* Most export requests the server answers with an error in one run
MaxFailures == 1

\* The lists of frequencies passed: 15, 30, ... up to MaxFreqs entries (the
\* empty list included), and one list that repeats a frequency
FrequencyLists == {[i \in 1..k |-> 15 * i] : k \in 0..MaxFreqs} \cup {<<15, 15>>}
\* The lists of issue months passed: 0, 1, ... up to MaxMonths entries
IssueMonthLists == {[i \in 1..k |-> i - 1] : k \in 0..MaxMonths}

\* admin_name = f"admin{mode}_tables"
admin_name(mode) == <<"admin", mode, "_tables">>

MutTableName(freq, mode, month, region_key) ==
    <<"output_freq_", freq, "_mode_", mode, "_month_", month, "_table">>

\* table_name = f"output_freq_{freq}_mode_{mode}_month_{month}_region_{region_key}_table"
table_name(freq, mode, month, region_key) ==
    <<"output_freq_", freq, "_mode_", mode, "_month_", month,
      "_region_", region_key, "_table">>

\* df.insert(0, 'Admin Name', value): a new first column, value in every row
InsertAdminName(df, value) ==
    [columns |-> <<"Admin Name">> \o df.columns,
     rows |-> [i \in 1..Len(df.rows) |-> df.rows[i] @@ [Admin_Name |-> value]]]

\* isinstance(admin_data, pd.DataFrame); get_admin_data returns a DataFrame
\* or None, never a Series, so the Series branch of lines 251-263 is not taken
IsDataFrame(x) == DOMAIN x = {"columns", "rows"}

\* The arguments of the get_data call for one (freq, month, region_key)
TableDataArgs(a, freq, month, region_key) ==
    [maproom |-> a.maproom, mode |-> a.mode, region |-> <<region_key>>,
     bad_years |-> a.bad_years, issue_month0 |-> month, freq |-> freq,
     threshold_protocol |-> a.threshold_protocol]

\* The arguments of the get_admin_data call
TableAdminArgs(a) ==
    [maproom |-> a.maproom, level |-> a.mode, username |-> a.username,
     password |-> a.password, need_valid_keys |-> a.need_valid_keys,
     valid_keys |-> a.valid_keys]

MutMonthLoopRequests(a) ==
    <<[request |-> RegionsRequest(TableAdminArgs(a)), status_code |-> 200]>>

\* The requests issued at the head of the body of the month loop: none,
\* admin_data was fetched once, before the loops
MonthLoopRequests(a) == <<>>

\* Export responses of the runs of get_trigger_tables: 200 with one history
\* row per year, the forecast depending on the region asked for, or 404
TableExportResponses(a) ==
    {[status_code |-> 200,
      json |-> [threshold |-> 0,
                skill |-> CHOOSE k \in Skills : TRUE,
                history |-> <<[year |-> 2019, pred |-> 0],
                              [year |-> 2020, pred |-> a.region[1]]>>]],
     [status_code |-> 404, json |-> None]}

\* Export requests answered with an error so far
Failures ==
    Cardinality({i \in 1..Len(requests) :
                    /\ requests[i].request.endpoint = "export"
                    /\ requests[i].status_code # 200})

GetTriggerTablesArgs ==
    {[maproom |-> "djibouti", mode |-> l, username |-> "user", password |-> "secret",
      need_valid_keys |-> "True", valid_keys |-> v, bad_years |-> {2020},
      threshold_protocol |-> 1, frequencies |-> fs, issue_month |-> ms] :
        l \in {0, 1}, v \in {{1}, RegionKeys},
        fs \in FrequencyLists, ms \in IssueMonthLists}

InitGetTriggerTables ==
    /\ pc = "call"
    /\ args \in GetTriggerTablesArgs
    /\ response = None
    /\ requests = <<>>
    /\ result = NoResult
    /\ raised = "none"
    /\ admin_data = None
    /\ admin_tables = <<>>
    /\ loop = <<>>
    /\ dataframe = <<>>

\* Lines 239-246: the collection with its empty group, and the single call
\* of get_admin_data
CallGetAdminData ==
    /\ pc = "call"
    /\ \E resp \in RegionsResponses :
        /\ response' = resp
        /\ requests' = Append(requests, Exchange(RegionsRequest(TableAdminArgs(args)), resp))
        /\ admin_data' = get_admin_data(TableAdminArgs(args), resp)
    /\ admin_tables' = (admin_name(args.mode) :> <<>>)
    /\ loop' = [f |-> 1, m |-> 1, r |-> 1]
    /\ pc' = "for_freq"
    /\ UNCHANGED <<args, result, raised, dataframe>>

\* for freq in frequencies: the next frequency
ForFreq ==
    /\ pc = "for_freq"
    /\ loop.f <= Len(args.frequencies)
    /\ loop' = [loop EXCEPT !.m = 1]
    /\ pc' = "for_month"
    /\ UNCHANGED <<args, response, requests, result, raised, admin_data,
                   admin_tables, dataframe>>

\* the frequencies are exhausted: return admin_tables
ReturnTables ==
    /\ pc = "for_freq"
    /\ loop.f > Len(args.frequencies)
    /\ result' = admin_tables
    /\ pc' = "return"
    /\ UNCHANGED <<args, response, requests, raised, admin_data, admin_tables,
                   loop, dataframe>>

\* for month in issue_month: the next month, admin_data being a DataFrame
ForMonth ==
    /\ pc = "for_month"
    /\ loop.m <= Len(args.issue_month)
    /\ IsDataFrame(admin_data)
    /\ requests' = requests \o MonthLoopRequests(args)
    /\ loop' = [loop EXCEPT !.r = 1]
    /\ pc' = "for_region"
    /\ UNCHANGED <<args, response, result, raised, admin_data, admin_tables,
                   dataframe>>

\* the next month, admin_data being neither a Series nor a DataFrame
RaiseValueError ==
    /\ pc = "for_month"
    /\ loop.m <= Len(args.issue_month)
    /\ ~IsDataFrame(admin_data)
    /\ requests' = requests \o MonthLoopRequests(args)
    /\ raised' = "ValueError"
    /\ pc' = "raise"
    /\ UNCHANGED <<args, response, result, admin_data, admin_tables, loop,
                   dataframe>>

\* the months are exhausted: back to the loop over the frequencies
ForMonthDone ==
    /\ pc = "for_month"
    /\ loop.m > Len(args.issue_month)
    /\ loop' = [loop EXCEPT !.f = @ + 1]
    /\ pc' = "for_freq"
    /\ UNCHANGED <<args, response, requests, result, raised, admin_data,
                   admin_tables, dataframe>>

\* The body of the loop over admin_data.iterrows(): get_data for the region,
\* the Admin Name column, the table stored under its name
StoreTable(resp) ==
    LET freq == args.frequencies[loop.f]
        month == args.issue_month[loop.m]
        row == admin_data.rows[loop.r]
        a == TableDataArgs(args, freq, month, row.key)
        df == InsertAdminName(get_data(a, resp), row.label)
        name == table_name(freq, args.mode, month, row.key)
        group == admin_tables[admin_name(args.mode)]
    IN  /\ response' = resp
        /\ requests' = requests \o Repeat(Exchange(ExportRequest(a), resp), ExportAttempts(resp))
        /\ admin_tables' =
              [admin_tables EXCEPT ![admin_name(args.mode)] =
                  [n \in DOMAIN group \cup {name} |-> IF n = name THEN df ELSE group[n]]]
        /\ loop' = [loop EXCEPT !.r = @ + 1]
        /\ UNCHANGED <<pc, args, result, raised, admin_data, dataframe>>

\* one region, the export endpoint answering 200
BuildTable ==
    /\ pc = "for_region"
    /\ loop.r <= Len(admin_data.rows)
    /\ \E resp \in TableExportResponses(
                      TableDataArgs(args, args.frequencies[loop.f],
                                    args.issue_month[loop.m], admin_data.rows[loop.r].key)) :
        /\ resp.status_code = 200
        /\ StoreTable(resp)

\* one region, the export endpoint answering with an error
BuildEmptyTable ==
    /\ pc = "for_region"
    /\ loop.r <= Len(admin_data.rows)
    /\ Failures < MaxFailures
    /\ \E resp \in TableExportResponses(
                      TableDataArgs(args, args.frequencies[loop.f],
                                    args.issue_month[loop.m], admin_data.rows[loop.r].key)) :
        /\ resp.status_code # 200
        /\ StoreTable(resp)

\* the regions are exhausted: back to the loop over the months
ForRegionDone ==
    /\ pc = "for_region"
    /\ loop.r > Len(admin_data.rows)
    /\ loop' = [loop EXCEPT !.m = @ + 1]
    /\ pc' = "for_month"
    /\ UNCHANGED <<args, response, requests, result, raised, admin_data,
                   admin_tables, dataframe>>

NextGetTriggerTables ==
    \/ CallGetAdminData
    \/ ForFreq
    \/ ReturnTables
    \/ ForMonth
    \/ RaiseValueError
    \/ ForMonthDone
    \/ BuildTable
    \/ BuildEmptyTable
    \/ ForRegionDone

SpecGetTriggerTables == InitGetTriggerTables /\ [][NextGetTriggerTables]_vars

Finished == pc \in {"return", "raise"}

Range(f) == {f[i] : i \in DOMAIN f}

\* The requests sent to the regions endpoint so far
RegionsRequests == {i \in 1..Len(requests) : requests[i].request.endpoint = "regions"}

\* The requests sent to the export endpoint so far
ExportRequests == {i \in 1..Len(requests) : requests[i].request.endpoint = "export"}

\* C5 as stated: whatever the lists of frequencies and issue months (empty
\* ones included), when get_admin_data returns neither a Series nor a
\* DataFrame get_trigger_tables raises ValueError and returns no collection.
C5_Original ==
    (Finished /\ ~IsDataFrame(admin_data)) =>
        /\ pc = "raise"
        /\ raised = "ValueError"
        /\ result = NoResult

\* C5, amended: with non-empty lists of frequencies and of issue months, when
\* get_admin_data returns neither a Series nor a DataFrame (the None of a
\* non-200 answer of the regions endpoint) get_trigger_tables raises
\* ValueError, returns no collection and requests no export; with an empty
\* list it raises nothing and returns the collection with its empty group.
C5_RaisesOnUnexpectedShape ==
    (Finished /\ (~IsDataFrame(admin_data) \/ requests[1].status_code # 200)) =>
        IF args.frequencies # <<>> /\ args.issue_month # <<>>
        THEN /\ pc = "raise"
             /\ raised = "ValueError"
             /\ result = NoResult
             /\ ExportRequests = {}
        ELSE /\ pc = "return"
             /\ raised = "none"
             /\ DOMAIN result = {<<"admin", args.mode, "_tables">>}
             /\ DOMAIN result[<<"admin", args.mode, "_tables">>] = {}

\* The regions endpoint answered 500 and get_trigger_tables, given two
\* frequencies and two months, has raised ValueError
C5_Witness ==
    /\ pc = "raise"
    /\ raised = "ValueError"
    /\ admin_data = None
    /\ requests[1].status_code = 500
    /\ Len(args.frequencies) = 2
    /\ Len(args.issue_month) = 2

\* C6: when get_admin_data returns a table of regions, the collection
\* returned holds, under the single key admin{mode}_tables, exactly one entry
\* for every (frequency, issue month, region key) of the cartesian product
\* and no other; the entry is named
\* output_freq_{freq}_mode_{mode}_month_{month}_region_{region_key}_table and
\* its first column, Admin Name, carries the region's label in every row.
C6_OneTablePerCombination ==
    (pc = "return" /\ IsDataFrame(admin_data)) =>
        LET group == <<"admin", args.mode, "_tables">>
            F == Range(args.frequencies)
            M == Range(args.issue_month)
            R == 1..Len(admin_data.rows)
            NameOf(f, m, r) ==
                <<"output_freq_", f, "_mode_", args.mode, "_month_", m,
                  "_region_", admin_data.rows[r].key, "_table">>
        IN  /\ DOMAIN result = {group}
            /\ DOMAIN result[group] = {NameOf(f, m, r) : f \in F, m \in M, r \in R}
            /\ Cardinality(DOMAIN result[group])
                   = Cardinality(F) * Cardinality(M) * Cardinality(R)
            /\ \A f \in F, m \in M, r \in R :
                   LET t == result[group][NameOf(f, m, r)]
                   IN  /\ Head(t.columns) = "Admin Name"
                       /\ \A i \in 1..Len(t.rows) :
                              t.rows[i].Admin_Name = admin_data.rows[r].label

\* Two frequencies, two months and two regions: eight tables returned, with
\* rows carrying the label of the second region
C6_Witness ==
    /\ pc = "return"
    /\ IsDataFrame(admin_data)
    /\ Len(admin_data.rows) = 2
    /\ args.frequencies = <<15, 30>>
    /\ Len(args.issue_month) = 2
    /\ Cardinality(DOMAIN result[admin_name(args.mode)]) = 8
    /\ \E n \in DOMAIN result[admin_name(args.mode)] :
           LET t == result[admin_name(args.mode)][n]
           IN  /\ Len(t.rows) > 0
               /\ t.rows[1].Admin_Name = admin_data.rows[2].label

\* C7 as stated: the number of requests to the regions endpoint during one run
\* (taken here over the completed runs with at least one combination) equals
\* the number of (frequency, issue month) combinations.
C7_Original ==
    (pc = "return" /\ args.frequencies # <<>> /\ args.issue_month # <<>>) =>
        Cardinality(RegionsRequests) = Len(args.frequencies) * Len(args.issue_month)

\* C7, amended: get_admin_data is called exactly once in a run, before the
\* loops, whatever the number of (frequency, issue month) combinations: one
\* request to the regions endpoint, the first request of the run.
C7_OneRegionsRequest ==
    (pc # "call") => RegionsRequests = {1}

\* A finished run over four (frequency, issue month) combinations with its
\* single request to the regions endpoint
C7_Witness ==
    /\ pc = "return"
    /\ Len(args.frequencies) * Len(args.issue_month) = 4
    /\ Cardinality(RegionsRequests) = 1
    /\ ExportRequests # {}

----------------------------------------------------------------------------
(* calculate_ev_rarop *)

\* Largest number of rows of the table passed to calculate_ev_rarop
MaxBatch == 2

\* Floating-point values are exact fractions [n, d] with d > 0 in lowest
\* terms; d = 0 is a non-finite value: NaN (n = 0), +inf (n = 1), -inf (n = -1)
RECURSIVE GCD(_, _)
GCD(a, b) == IF b = 0 THEN a ELSE GCD(b, a % b)

Abs(x) == IF x < 0 THEN 0 - x ELSE x
Sign(x) == IF x < 0 THEN 0 - 1 ELSE IF x > 0 THEN 1 ELSE 0

FNaN == [n |-> 0, d |-> 0]

\* n / d as floating-point division does it: 0/0 is NaN, x/0 is +-inf
Frac(n, d) ==
    IF d = 0 THEN [n |-> Sign(n), d |-> 0]
    ELSE LET g == GCD(Abs(n), Abs(d))
         IN  [n |-> Sign(d) * (n \div g), d |-> Abs(d) \div g]

FromInt(i) == [n |-> i, d |-> 1]

FSub(a, b) ==
    IF a.d # 0 /\ b.d # 0 THEN Frac(a.n * b.d - b.n * a.d, a.d * b.d)
    ELSE IF a.d = 0 /\ b.d = 0
         THEN (IF a.n # 0 /\ a.n = 0 - b.n THEN a ELSE FNaN)
         ELSE IF a.d = 0 THEN a ELSE [n |-> 0 - b.n, d |-> 0]

FDiv(a, b) ==
    IF a.d # 0 /\ b.d # 0 THEN Frac(a.n * b.d, a.d * b.n)
    ELSE IF a.d = 0 /\ b.d # 0
         THEN [n |-> a.n * (IF b.n < 0 THEN 0 - 1 ELSE 1), d |-> 0]
         ELSE IF a.d # 0 /\ b.n # 0 THEN FromInt(0) ELSE FNaN

\* The skill counts of the rows of the tables passed
SkillRows ==
    {[Worthy_Action |-> 5, Act_in_Vain |-> 2, Worthy_Inaction |-> 4, Fail_to_Act |-> 3],
     [Worthy_Action |-> 0, Act_in_Vain |-> 0, Worthy_Inaction |-> 0, Fail_to_Act |-> 0],
     [Worthy_Action |-> 1, Act_in_Vain |-> 0, Worthy_Inaction |-> 1, Fail_to_Act |-> 0],
     [Worthy_Action |-> 0, Act_in_Vain |-> 1, Worthy_Inaction |-> 0, Fail_to_Act |-> 1],
     [Worthy_Action |-> 3, Act_in_Vain |-> 1, Worthy_Inaction |-> 0, Fail_to_Act |-> 0]}

\* The four coefficients of the value/cost model
Coefficients ==
    {[value_true_positive |-> 1, cost_false_positive |-> 0 - 1,
      value_true_negative |-> 1, cost_false_negative |-> 0 - 1],
     [value_true_positive |-> 2, cost_false_positive |-> 0 - 1,
      value_true_negative |-> 0, cost_false_negative |-> 0 - 3],
     [value_true_positive |-> 0, cost_false_positive |-> 0,
      value_true_negative |-> 0, cost_false_negative |-> 0]}

RiskTolerances ==
    {Frac(0, 1), Frac(1, 4), Frac(1, 2), Frac(1, 1),
     Frac(0 - 1, 2), Frac(3, 2), Frac(2, 1)}

skill_columns == <<"Worthy Action", "Act in Vain", "Worthy Inaction", "Fail to Act">>

\* dataframe[c] = ...: a new last column, or the column c overwritten
SetColumn(columns, c) ==
    IF \E i \in 1..Len(columns) : columns[i] = c THEN columns ELSE Append(columns, c)

RECURSIVE SetColumns(_, _)
SetColumns(columns, cs) ==
    IF cs = <<>> THEN columns ELSE SetColumns(SetColumn(columns, Head(cs)), Tail(cs))

\* The row's total outcome count
Total(row) ==
    row.Worthy_Action + row.Act_in_Vain + row.Worthy_Inaction + row.Fail_to_Act

\* dataframe['EV']
EV(row, c) ==
    row.Worthy_Action * c.value_true_positive
    + row.Act_in_Vain * c.cost_false_positive
    + row.Worthy_Inaction * c.value_true_negative
    + row.Fail_to_Act * c.cost_false_negative

\* dataframe['EV'].min() and .max() (the table has at least one row)
SeriesMin(xs) == CHOOSE x \in Range(xs) : \A y \in Range(xs) : x <= y
SeriesMax(xs) == CHOOSE x \in Range(xs) : \A y \in Range(xs) : x >= y

MutEVNormGuarded(ev, ev_min, ev_max) ==
    IF ev_max = ev_min THEN FromInt(0) ELSE Frac(ev - ev_min, ev_max - ev_min)

MutEVNorm(ev, ev_min, ev_max) == Frac(ev - ev_min, ev_max)

\* dataframe['EV_norm'] = (dataframe['EV'] - ev_min) / (ev_max - ev_min)
EVNorm(ev, ev_min, ev_max) == Frac(ev - ev_min, ev_max - ev_min)

\* dataframe['Risk']
Risk(row) == Frac(row.Act_in_Vain + row.Fail_to_Act, Total(row))

\* dataframe['Reward']
Reward(row) == Frac(row.Worthy_Action + row.Worthy_Inaction, Total(row))

\* risk_tolerance > 0, risk_tolerance <= 1 and risk_tolerance == 0 on floats:
\* every comparison with NaN is False, +inf is > 0 and -inf is <= 1
FGreaterZero(t) == t.n > 0
FAtMostOne(t) == IF t.d = 0 THEN t.n < 0 ELSE t.n <= t.d
FIsZero(t) == t.n = 0 /\ t.d # 0

MutRaropMultiplies(row, risk_tolerance) ==
    IF FGreaterZero(risk_tolerance) /\ FAtMostOne(risk_tolerance)
    THEN FSub(row.Reward, FDiv(row.Risk, FDiv(FromInt(1), risk_tolerance)))
    ELSE IF FIsZero(risk_tolerance)
         THEN FSub(row.Reward, FromInt(10))
         ELSE None

MutRaropNoNull(row, risk_tolerance) ==
    IF FGreaterZero(risk_tolerance) /\ FAtMostOne(risk_tolerance)
    THEN FSub(row.Reward, FDiv(row.Risk, risk_tolerance))
    ELSE FSub(row.Reward, FromInt(10))

\* calculate_rarop(row); print(...) returns None
calculate_rarop(row, risk_tolerance) ==
    IF FGreaterZero(risk_tolerance) /\ FAtMostOne(risk_tolerance)
    THEN FSub(row.Reward, FDiv(row.Risk, risk_tolerance))
    ELSE IF FIsZero(risk_tolerance)
         THEN FSub(row.Reward, FromInt(10))
         ELSE None

\* The table calculate_ev_rarop leaves in df (and returns)
calculate_ev_rarop(df, c, risk_tolerance) ==
    LET evs == [i \in 1..Len(df.rows) |-> EV(df.rows[i], c)]
        ev_min == SeriesMin(evs)
        ev_max == SeriesMax(evs)
        WithRatios(i) ==
            [EV |-> evs[i], EV_norm |-> EVNorm(evs[i], ev_min, ev_max),
             Risk |-> Risk(df.rows[i]), Reward |-> Reward(df.rows[i])] @@ df.rows[i]
    IN  [columns |-> SetColumns(df.columns, <<"EV", "EV_norm", "Risk", "Reward", "RARoP">>),
         rows |-> [i \in 1..Len(df.rows) |->
                      [RARoP |-> calculate_rarop(WithRatios(i), risk_tolerance)]
                          @@ WithRatios(i)]]

CalculateEvRaropArgs ==
    {[value_true_positive |-> c.value_true_positive,
      cost_false_positive |-> c.cost_false_positive,
      value_true_negative |-> c.value_true_negative,
      cost_false_negative |-> c.cost_false_negative,
      risk_tolerance |-> t] : c \in Coefficients, t \in RiskTolerances}

InitCalculateEvRarop ==
    /\ pc = "call"
    /\ args \in CalculateEvRaropArgs
    /\ dataframe \in [columns : {skill_columns}, rows : SeqsUpTo(SkillRows, MaxBatch)]
    /\ response = None
    /\ requests = <<>>
    /\ result = NoResult
    /\ raised = "none"
    /\ admin_data = None
    /\ admin_tables = <<>>
    /\ loop = <<>>

\* calculate_ev_rarop on the caller's table: the columns are added to the
\* table itself, which is also the value returned
CalculateEvRarop ==
    /\ pc = "call"
    /\ dataframe' = calculate_ev_rarop(dataframe, args, args.risk_tolerance)
    /\ result' = dataframe'
    /\ pc' = "return"
    /\ UNCHANGED <<args, response, requests, raised, admin_data, admin_tables, loop>>

NextCalculateEvRarop == CalculateEvRarop

SpecCalculateEvRarop == InitCalculateEvRarop /\ [][NextCalculateEvRarop]_vars

\* risk_tolerance is in [0, 1]
ValidTolerance(t) == t.d > 0 /\ t.n >= 0 /\ t.n <= t.d

\* The fraction x equals the quotient num / den of two integers, den > 0
EqualsQuotient(x, num, den) == x.d > 0 /\ x.n * den = x.d * num

\* C8: for every row, RARoP = Reward - Risk / risk_tolerance when
\* 0 < risk_tolerance <= 1 (Reward - 2 * Risk at 0.5, Reward - Risk at 1) and
\* RARoP = Reward - 10 when risk_tolerance = 0, Risk and Reward being the
\* row's own (AiV + FtA) / total and (WA + WI) / total; a row whose total is
\* zero has Risk, Reward and RARoP all NaN.
C8_RARoP ==
    (pc = "return" /\ ValidTolerance(args.risk_tolerance)) =>
        \A i \in 1..Len(result.rows) :
            LET row == result.rows[i]
                t == args.risk_tolerance
                good == row.Worthy_Action + row.Worthy_Inaction
                bad == row.Act_in_Vain + row.Fail_to_Act
                total == good + bad
            IN  IF total = 0
                THEN row.Risk = FNaN /\ row.Reward = FNaN /\ row.RARoP = FNaN
                ELSE /\ EqualsQuotient(row.Risk, bad, total)
                     /\ EqualsQuotient(row.Reward, good, total)
                     /\ IF t.n > 0
                        THEN EqualsQuotient(row.RARoP, good * t.n - bad * t.d, total * t.n)
                        ELSE EqualsQuotient(row.RARoP, good - 10 * total, total)
                     /\ (t = [n |-> 1, d |-> 2]) =>
                            EqualsQuotient(row.RARoP, good - 2 * bad, total)
                     /\ (t = [n |-> 1, d |-> 1]) =>
                            EqualsQuotient(row.RARoP, good - bad, total)

\* The fixture row (5, 2, 4, 3) at risk tolerance 0.5: RARoP = 9/14 - 2 * 5/14
C8_Witness ==
    /\ pc = "return"
    /\ args.risk_tolerance = [n |-> 1, d |-> 2]
    /\ \E i \in 1..Len(result.rows) :
        /\ result.rows[i].Worthy_Action = 5
        /\ result.rows[i].Reward = [n |-> 9, d |-> 14]
        /\ result.rows[i].Risk = [n |-> 5, d |-> 14]
        /\ result.rows[i].RARoP = [n |-> 0 - 1, d |-> 14]

\* C9: with risk_tolerance outside [0, 1] calculate_ev_rarop does not fail:
\* it returns the table with EV, EV_norm, Risk and Reward as they are for a
\* valid tolerance (here 1) and with RARoP the null marker in every row.
C9_InvalidToleranceGivesNull ==
    (pc = "return" /\ ~ValidTolerance(args.risk_tolerance)) =>
        LET valid == calculate_ev_rarop(dataframe, args, [n |-> 1, d |-> 1])
        IN  /\ raised = "none"
            /\ Len(result.rows) = Len(valid.rows)
            /\ result.columns = valid.columns
            /\ \A i \in 1..Len(result.rows) :
                /\ result.rows[i].RARoP = None
                /\ result.rows[i].EV = valid.rows[i].EV
                /\ result.rows[i].EV_norm = valid.rows[i].EV_norm
                /\ result.rows[i].Risk = valid.rows[i].Risk
                /\ result.rows[i].Reward = valid.rows[i].Reward
                /\ valid.rows[i].RARoP # None

\* A two-row table returned for a negative tolerance, RARoP null in both rows
C9_Witness ==
    /\ pc = "return"
    /\ args.risk_tolerance.n < 0
    /\ Len(result.rows) = 2
    /\ result.rows[1].RARoP = None
    /\ result.rows[2].RARoP = None
    /\ result.rows[1].EV # result.rows[2].EV

\* C10: when the EV values of the batch are not all equal, every EV_norm is
\* in [0, 1], it is 0 exactly in the rows of minimum EV and 1 exactly in the
\* rows of maximum EV.
C10_EVNormRange ==
    (pc = "return"
        /\ \E i, j \in 1..Len(result.rows) : result.rows[i].EV # result.rows[j].EV) =>
        \A i \in 1..Len(result.rows) :
            LET x == result.rows[i].EV_norm
                ev == result.rows[i].EV
                least == \A j \in 1..Len(result.rows) : ev <= result.rows[j].EV
                greatest == \A j \in 1..Len(result.rows) : ev >= result.rows[j].EV
            IN  /\ ev = EV(result.rows[i], args)
                /\ x.d > 0
                /\ 0 <= x.n
                /\ x.n <= x.d
                /\ least => x = [n |-> 0, d |-> 1]
                /\ greatest => x = [n |-> 1, d |-> 1]

\* A batch with a negative minimum EV normalised to 0 and the maximum to 1
C10_Witness ==
    /\ pc = "return"
    /\ Len(result.rows) = 2
    /\ result.rows[1].EV < 0
    /\ result.rows[1].EV_norm = [n |-> 0, d |-> 1]
    /\ result.rows[2].EV > 0
    /\ result.rows[2].EV_norm = [n |-> 1, d |-> 1]

\* C11: when all EV values of the batch are equal (a one-row batch included)
\* the call completes without error and EV_norm is the same constant in
\* every row: the NaN of the floating-point division 0 / 0.
C11_DegenerateEVNorm ==
    (pc = "return"
        /\ \A i, j \in 1..Len(result.rows) : result.rows[i].EV = result.rows[j].EV) =>
        /\ raised = "none"
        /\ \A i \in 1..Len(result.rows) :
            /\ result.rows[i].EV = EV(result.rows[i], args)
            /\ result.rows[i].EV_norm = FNaN

\* Two rows of different skill counts and the same non-zero EV, EV_norm NaN
\* in both
C11_Witness ==
    /\ pc = "return"
    /\ Len(result.rows) = 2
    /\ result.rows[1].Worthy_Action # result.rows[2].Worthy_Action
    /\ result.rows[1].EV = result.rows[2].EV
    /\ result.rows[1].EV # 0
    /\ result.rows[1].EV_norm = FNaN
    /\ result.rows[2].EV_norm = FNaN

----------------------------------------------------------------------------
(* get_trigger_tables when an export request fails *)

\* The export exchanges of the run, in order (the first request of a run is
\* the one to the regions endpoint)
ExportLog == SubSeq(requests, 2, Len(requests))

\* The k-th (frequency, issue month, region key) in loop order: frequency
\* outermost, then issue month, then region
CombinationAt(k) ==
    LET nr == Len(admin_data.rows)
        nm == Len(args.issue_month)
    IN  [freq   |-> args.frequencies[((k - 1) \div (nm * nr)) + 1],
         month  |-> args.issue_month[(((k - 1) \div nr) % nm) + 1],
         region |-> admin_data.rows[((k - 1) % nr) + 1].key]

\* In every state of a run over a table of regions: the export requests made
\* so far are those of the first combinations in loop order, one each,
\* failed or not, never more than there are combinations; nothing was
\* raised; a returned run has requested every combination.
C15_EveryCombinationOnceInOrder ==
    (pc # "call" /\ IsDataFrame(admin_data)) =>
        /\ raised = "none"
        /\ pc # "raise"
        /\ Len(ExportLog) <= Len(args.frequencies) * Len(args.issue_month)
                                 * Len(admin_data.rows)
        /\ \A k \in 1..Len(ExportLog) :
               /\ ExportLog[k].request.endpoint = "export"
               /\ ExportLog[k].request.freq = CombinationAt(k).freq
               /\ ExportLog[k].request.issue_month0 = CombinationAt(k).month
               /\ ExportLog[k].request.region = <<CombinationAt(k).region>>
        /\ pc = "return" =>
               Len(ExportLog) = Len(args.frequencies) * Len(args.issue_month)
                                    * Len(admin_data.rows)

\* A step in which the export request of one combination is answered with an
\* error: one request more (no retry), the loop goes on to the next region,
\* the table stored under the combination's name has the Admin Name column
\* and no row, and the entries under every other name are as before.
C15_FailedExportStep ==
    (/\ pc = "for_region"
     /\ loop'.r = loop.r + 1
     /\ response'.status_code # 200) =>
        LET group == <<"admin", args.mode, "_tables">>
            name == <<"output_freq_", args.frequencies[loop.f], "_mode_", args.mode,
                      "_month_", args.issue_month[loop.m],
                      "_region_", admin_data.rows[loop.r].key, "_table">>
        IN  /\ pc' = "for_region"
            /\ raised' = "none"
            /\ Len(requests') = Len(requests) + 1
            /\ requests'[Len(requests')].status_code = response'.status_code
            /\ SubSeq(requests', 1, Len(requests)) = requests
            /\ DOMAIN admin_tables' = {group}
            /\ DOMAIN admin_tables'[group] = DOMAIN admin_tables[group] \cup {name}
            /\ admin_tables'[group][name] = [columns |-> <<"Admin Name">>, rows |-> <<>>]
            /\ \A n \in DOMAIN admin_tables[group] \ {name} :
                   admin_tables'[group][n] = admin_tables[group][n]

\* C15: when the export request of one (frequency, issue month, region) is
\* answered non-200 during get_trigger_tables, the run is not aborted and the
\* request is not retried: a table without rows is stored under that
\* combination's name, the entries stored under the other names are
\* unchanged, and every remaining combination is still requested exactly
\* once, in loop order.
C15_FailedExportDoesNotAbort ==
    [][C15_FailedExportStep]_vars /\ []C15_EveryCombinationOnceInOrder

\* A returned run over 2 x 2 x 2 combinations whose third export request
\* failed: its table has no row, the five later requests were answered 200
C15_Witness ==
    /\ pc = "return"
    /\ IsDataFrame(admin_data)
    /\ Len(ExportLog) = 8
    /\ ExportLog[3].status_code = 404
    /\ \A k \in 4..8 : ExportLog[k].status_code = 200
    /\ LET t == result[admin_name(args.mode)]
                      [table_name(CombinationAt(3).freq, args.mode,
                                  CombinationAt(3).month, CombinationAt(3).region)]
       IN  t.rows = <<>> /\ t.columns = <<"Admin Name">>
    /\ \E n \in DOMAIN result[admin_name(args.mode)] :
           Len(result[admin_name(args.mode)][n].rows) > 0

----------------------------------------------------------------------------
(* generate_rarop_visualizations *)

\* Longest list of risk tolerances passed to generate_rarop_visualizations
MaxTolerances == 2

\* The lists of risk-tolerance values passed (the empty list included)
RiskToleranceLists ==
    {<<>>} \cup SeqsUpTo({Frac(0, 1), Frac(1, 2), Frac(3, 2)}, MaxTolerances)

computed_columns == <<"EV", "EV_norm", "Risk", "Reward", "RARoP">>

\* The columns visualize_ev_rarop_by_admin reads besides the computed ones
grouping_columns == <<"Admin Name", "Frequency (%)">>

\* The 'Admin Name' values of the tables passed
AdminNames == {LabelOf(1), LabelOf(2)}

\* The rows of a table that has the columns of get_trigger_tables' tables
\* (the response's skill counts, or none at all)
GroupedRows ==
    {r @@ [Admin_Name |-> n, Frequency |-> <<15, "%">>] :
         r \in {x \in SkillRows : x.Worthy_Action = 5 \/ Total(x) = 0},
         n \in AdminNames}

\* The tables a caller passes: the skill counts alone, or with the
\* 'Admin Name' and 'Frequency (%)' columns before them
CallersTables ==
    [columns : {skill_columns}, rows : SeqsUpTo(SkillRows, MaxBatch)]
    \cup [columns : {grouping_columns \o skill_columns},
          rows : SeqsUpTo(GroupedRows, MaxBatch)]

HasColumn(df, c) == \E i \in 1..Len(df.columns) : df.columns[i] = c

\* The exception visualize_ev_rarop_by_admin ends with ("none" when it
\* returns): grouped_data['Admin Name'] raises KeyError on a table without
\* that column; the plots of each admin name read 'Frequency (%)', 'EV_norm'
\* and 'RARoP' by name.  The function changes nothing in grouped_data.
visualize_ev_rarop_by_admin(grouped_data) ==
    IF ~HasColumn(grouped_data, "Admin Name") THEN "KeyError"
    ELSE IF /\ grouped_data.rows # <<>>
            /\ \E c \in {"Frequency (%)", "EV_norm", "RARoP"} :
                   ~HasColumn(grouped_data, c)
         THEN "ValueError"
         ELSE "none"

MutPassesCallersTable == TRUE

\* Whether calculate_ev_rarop is handed the caller's table itself: no, it is
\* handed dataframe.copy(), a new object
PassesCallersTable == FALSE

GenerateRaropArgs ==
    {[value_true_positive |-> c.value_true_positive,
      cost_false_positive |-> c.cost_false_positive,
      value_true_negative |-> c.value_true_negative,
      cost_false_negative |-> c.cost_false_negative,
      risk_tolerance |-> Frac(1, 2),
      risk_tolerance_values |-> ts] : c \in Coefficients, ts \in RiskToleranceLists}

\* A caller holding a table and about to call either calculate_ev_rarop
\* (with risk_tolerance) or generate_rarop_visualizations (with
\* risk_tolerance_values)
InitGenerateRarop ==
    /\ pc = "call"
    /\ args \in GenerateRaropArgs
    /\ dataframe \in CallersTables
    /\ response = None
    /\ requests = <<>>
    /\ result = NoResult
    /\ raised = "none"
    /\ admin_data = None
    /\ admin_tables = <<>>
    /\ loop = <<>>

\* generate_rarop_visualizations is entered
CallGenerateRarop ==
    /\ pc = "call"
    /\ loop' = [i |-> 1, input |-> None, updated_data |-> None]
    /\ pc' = "for_risk_tolerance"
    /\ UNCHANGED <<args, response, requests, result, raised, admin_data,
                   admin_tables, dataframe>>

\* One iteration: calculate_ev_rarop on the table passed, whose result,
\* updated_data, goes to visualize_ev_rarop_by_admin; an exception of that
\* call ends generate_rarop_visualizations
ForRiskTolerance ==
    /\ pc = "for_risk_tolerance"
    /\ loop.i <= Len(args.risk_tolerance_values)
    /\ LET updated == calculate_ev_rarop(dataframe, args,
                                         args.risk_tolerance_values[loop.i])
           error == visualize_ev_rarop_by_admin(updated)
       IN  /\ loop' = [i |-> IF error = "none" THEN loop.i + 1 ELSE loop.i,
                       input |-> dataframe, updated_data |-> updated]
           /\ dataframe' = IF PassesCallersTable THEN updated ELSE dataframe
           /\ raised' = error
           /\ pc' = IF error = "none" THEN "for_risk_tolerance" ELSE "raise"
    /\ UNCHANGED <<args, response, requests, result, admin_data, admin_tables>>

\* The values are exhausted: the function returns None
ReturnFromGenerateRarop ==
    /\ pc = "for_risk_tolerance"
    /\ loop.i > Len(args.risk_tolerance_values)
    /\ result' = None
    /\ pc' = "return"
    /\ UNCHANGED <<args, response, requests, raised, admin_data, admin_tables,
                   loop, dataframe>>

NextGenerateRarop ==
    \/ CalculateEvRarop
    \/ CallGenerateRarop
    \/ ForRiskTolerance
    \/ ReturnFromGenerateRarop

SpecGenerateRarop == InitGenerateRarop /\ [][NextGenerateRarop]_vars

HasComputedColumn(df) ==
    \E i \in 1..Len(df.columns), j \in 1..Len(computed_columns) :
        df.columns[i] = computed_columns[j]

HasComputedColumns(df) ==
    \A j \in 1..Len(computed_columns) :
        \E i \in 1..Len(df.columns) : df.columns[i] = computed_columns[j]

\* Every step of generate_rarop_visualizations, the one that ends it with
\* an exception included, leaves the caller's table as it was; an iteration
\* hands calculate_ev_rarop a table without any of the five computed columns
\* and gets them in updated_data; a direct call of calculate_ev_rarop adds
\* the five columns to the caller's table itself.
C16_Step ==
    /\ (pc = "for_risk_tolerance" \/ pc' = "for_risk_tolerance") => dataframe' = dataframe
    /\ (pc = "for_risk_tolerance" /\ pc' # "return") =>
           /\ ~HasComputedColumn(loop'.input)
           /\ loop'.input = dataframe
           /\ HasComputedColumns(loop'.updated_data)
           /\ \A k \in 1..Len(dataframe.rows) :
                  /\ DOMAIN dataframe'.rows[k] \cap {"EV", "EV_norm", "Risk", "Reward", "RARoP"}
                         = {}
                  /\ {"EV", "EV_norm", "Risk", "Reward", "RARoP"}
                         \subseteq DOMAIN loop'.updated_data.rows[k]
           /\ (pc' = "raise") = ~HasColumn(dataframe, "Admin Name")
    /\ (pc = "call" /\ pc' = "return") =>
           /\ ~HasComputedColumn(dataframe)
           /\ HasComputedColumns(dataframe')
           /\ dataframe' = result'
           /\ \A k \in 1..Len(dataframe'.rows) :
                  {"EV", "EV_norm", "Risk", "Reward", "RARoP"} \subseteq DOMAIN dataframe'.rows[k]

\* C16: generate_rarop_visualizations leaves the caller's table unchanged for
\* any sequence of risk tolerances: each iteration works on a copy, so the
\* columns EV, EV_norm, Risk, Reward and RARoP of one iteration are neither
\* in the input of a later iteration nor in the caller's table afterwards
\* (whether the call returns or ends with the KeyError of a table without
\* 'Admin Name'), whereas calculate_ev_rarop called directly adds them to the
\* table given.
C16_CallersTableUnchanged ==
    [][C16_Step]_vars
    /\ []((pc = "for_risk_tolerance" \/ pc = "raise"
              \/ (pc = "return" /\ result = None))
            => ~HasComputedColumn(dataframe))

\* generate_rarop_visualizations has returned after two iterations, the
\* second having produced the five columns, and the caller's table still
\* has the columns it had
C16_Witness ==
    /\ pc = "return"
    /\ result = None
    /\ raised = "none"
    /\ Len(args.risk_tolerance_values) = 2
    /\ loop.i = 3
    /\ HasComputedColumns(loop.updated_data)
    /\ loop.input = dataframe
    /\ dataframe.columns = grouping_columns \o skill_columns

====
